---- MODULE Spec2Model ----
(***************************************************************************)
(* Realtime layer of ResearchBridgeBackend (setupSocketHandlers): the      *)
(* handshake authentication middleware, the connection handler, the six    *)
(* inbound event handlers and the disconnect handler, over the room map    *)
(* of the socket.io namespace and the two persistence lookups they await.  *)
(* REST layer: the rate limiter and authenticateToken in front of the      *)
(* mounted routers, and the conversation, message and document routes.     *)
(***************************************************************************)
EXTENDS Integers, FiniteSets, Sequences, Bags, TLC

(* ------------------------------------------------------------------ *)
(* Bounds and input domains                                            *)
(* ------------------------------------------------------------------ *)

\* Most handlers that may be suspended at an await at the same time.
MaxPending == 2

\* The clock runs from 0 to MaxNow.
MaxNow == 1

\* Most presence events a client's inbox holds before set-presence stops.
MaxInbox == 3

\* Socket ids, handed out in this order (every connection gets a fresh id).
Conns == <<"s1", "s2">>

ConnIds == {Conns[i] : i \in 1..Len(Conns)}

Users == {"u1", "u2"}

\* Conversation ids a client may send: k1 exists, k9 does not.
ConvIds == {"k1", "k9"}

\* Document ids a client may send: d1 exists, d9 does not.
DocIds == {"d1", "d9"}

\* The rooms the modelled clients address their broadcasts to.
BroadcastConvIds == {"k1"}

BroadcastDocIds == {"d1"}

\* The userId / senderId a client writes into its own payloads: a spoof when
\* the sender is u1, the truth when it is u2.
ClaimedIds == {"u2"}

Contents == {"text"}

Positions == {7}

IsTypingValues == {TRUE, FALSE}

None == "none"

\* No decoded user, no row, no event handled yet.
NoUser == [id |-> None]

Null == [found |-> FALSE]

NoStep == [event |-> None]

\* An event emitted with no argument: the handler's parameter is undefined.
Undefined == [undefined |-> TRUE]

Email(u) == u

\* process.env.JWT_SECRET || "your_jwt_secret"
Secret == "your_jwt_secret"

\* A token as the client presents it: missing, or a payload and the key it
\* was signed with. exp is the payload's expiry time.
NoToken == [missing |-> TRUE]

SignedToken(u, key, exp) ==
  [payload |-> [id |-> u, email |-> Email(u), exp |-> exp], key |-> key]

Tokens ==
  { NoToken,
    SignedToken("u1", "forged", 1),
    SignedToken("u2", Secret, 0),
    SignedToken("u1", Secret, 1),
    SignedToken("u2", Secret, 1) }

(* ------------------------------------------------------------------ *)
(* State                                                               *)
(* ------------------------------------------------------------------ *)

VARIABLES
  process,        \* the server process: up, or crashed on an uncaught exception
  participants,   \* persistence: ConversationParticipant rows <<conversationId, userId>>
  now,            \* the clock jwt.verify reads
  status,         \* per socket id: idle, refused, connected, disconnected
  token,          \* per socket id: socket.handshake.auth.token
  user,           \* per socket id: socket.data.user (the decoded payload)
  handlers,       \* socket ids on which the connection handler has run
  rooms,          \* the adapter's room map: a bag of <<room key, socket id>>
  projectMembers, \* persistence: ProjectMember rows <<projectId, userId>>
  pending,        \* bag of handlers suspended at an awaited lookup
  last,           \* the event or lookup result the last step handled
  out,            \* the broadcasts the last step emitted, in order
  inbox,          \* per socket: the presence and user-joined events its client received, in order
  totalHits,      \* the rate limiter's count of requests in the current window
  http,           \* the REST request answered by the last step, with its response
  calls,          \* bag of REST handlers suspended at an awaited query
  db              \* persistence: the tables the REST routes read and write

vars ==
  <<process, participants, now, status, token, user, handlers, rooms, projectMembers,
    pending, last, out, inbox, totalHits, http, calls, db>>

\* What the realtime layer reads and writes, and what only the REST layer does.
socketVars ==
  <<process, now, status, token, user, handlers, rooms, pending, last, out, inbox>>

restVars == <<totalHits, http, calls, db>>

(* ------------------------------------------------------------------ *)
(* Persistence collaborator                                            *)
(* ------------------------------------------------------------------ *)

\* Document rows: id -> projectId.
documents == [d \in {"d1"} |-> "p1"]

\* prisma.conversationParticipant.findFirst({where: {conversationId, userId}})
FindParticipant(conversationId, userId) ==
  IF <<conversationId, userId>> \in participants
    THEN [found |-> TRUE, conversationId |-> conversationId, userId |-> userId]
    ELSE Null

\* prisma.document.findUnique({where: {id}})
FindDocument(documentId) ==
  IF documentId \in DOMAIN documents
    THEN [found |-> TRUE, id |-> documentId, projectId |-> documents[documentId]]
    ELSE Null

\* prisma.projectMember.findFirst({where: {projectId, userId}})
FindProjectMember(projectId, userId) ==
  IF <<projectId, userId>> \in projectMembers
    THEN [found |-> TRUE, projectId |-> projectId, userId |-> userId]
    ELSE Null

(* ------------------------------------------------------------------ *)
(* Rooms and broadcast                                                 *)
(* ------------------------------------------------------------------ *)

UserRoom(id) == <<"user", id>>

ConversationRoom(id) == <<"conversation", id>>

DocumentRoom(id) == <<"document", id>>

\* How many times socket c occurs in the room.
Occurs(rm, room, c) == CopiesIn(<<room, c>>, rm)

IsMember(rm, room, c) == Occurs(rm, room, c) > 0

\* socket.join adding the id to the room's list whether it is there or not.
SocketJoinAppend(rm, st, c, room) ==
  IF st[c] # "connected" THEN rm ELSE rm (+) SetToBag({<<room, c>>})

\* socket.join as it was before the library disabled it on closed sockets.
SocketJoinAfterClose(rm, st, c, room) ==
  IF IsMember(rm, room, c) THEN rm ELSE rm (+) SetToBag({<<room, c>>})

\* socket.join replacing the room's member set by the joining id.
SocketJoinReplacing(rm, st, c, room) ==
  IF st[c] # "connected" THEN rm
  ELSE [m \in {x \in BagToSet(rm) : x[1] # room} \cup {<<room, c>>} |->
          IF m \in BagToSet(rm) THEN rm[m] ELSE 1]

\* socket.join(room): the adapter adds the id to the room unless it is there.
\* When a socket closes the library replaces its join by a no-op (socket.io
\* from 4.5.2 on; socket.data, which this code uses, needs socket.io 4).
SocketJoin(rm, st, c, room) ==
  IF st[c] # "connected" THEN rm
  ELSE IF IsMember(rm, room, c) THEN rm
  ELSE rm (+) SetToBag({<<room, c>>})

\* The close leaving the id in its user room.
LeaveAllKeepingUserRoom(rm, c) ==
  [m \in {x \in BagToSet(rm) : x[2] # c \/ x[1][1] = "user"} |-> rm[m]]

\* The adapter's delAll on close: the id leaves every room.
LeaveAll(rm, c) ==
  [m \in {x \in BagToSet(rm) : x[2] # c} |-> rm[m]]

Live(st) == {c \in ConnIds : st[c] = "connected"}

\* io.to(room).emit(event, data) in its place: the sender is not excepted.
IoToEmit(rm, st, c, room, event, data) ==
  [event |-> event, from |-> c, room |-> room, data |-> data,
   to |-> [r \in ConnIds |-> IF r \in Live(st) THEN Occurs(rm, room, r) ELSE 0]]

\* The broadcast with the membership records read again for every receiver.
SocketToEmitRevalidated(rm, st, c, room, event, data) ==
  [event |-> event, from |-> c, room |-> room, data |-> data,
   to |-> [r \in ConnIds |->
            IF /\ r # c
               /\ r \in Live(st)
               /\ \/ room[1] = "conversation" /\ <<room[2], user[r].id>> \in participants
                  \/ room[1] = "document" /\ <<"p1", user[r].id>> \in projectMembers
              THEN Occurs(rm, room, r) ELSE 0]]

\* socket.to(room).emit(event, data): one packet for every occurrence of a
\* socket in the room, except the sender and the ids with no open socket.
SocketToEmit(rm, st, c, room, event, data) ==
  [event |-> event, from |-> c, room |-> room, data |-> data,
   to |-> [r \in ConnIds |-> IF r # c /\ r \in Live(st) THEN Occurs(rm, room, r) ELSE 0]]

Everyone == <<"*", "*">>

\* io.emit(event, data): one packet for every open socket of the namespace.
IoEmit(st, c, event, data) ==
  [event |-> event, from |-> c, room |-> Everyone, data |-> data,
   to |-> [r \in ConnIds |-> IF r \in Live(st) THEN 1 ELSE 0]]

\* The user-presence-change and user-joined events of the broadcasts o that
\* reach socket r, each with the socket whose handler emitted it.
ReceivedFor(r, o) ==
  LET reaches(e) == e.event \in {"user-presence-change", "user-joined"} /\ e.to[r] > 0
      hits == SelectSeq(o, reaches)
  IN [i \in 1..Len(hits) |-> [from |-> hits[i].from, data |-> hits[i].data]]

\* The transport delivers to each client, in order, what was emitted to its
\* socket. The record is kept only where a specification turns it on.
Deliver(box, o) ==
  IF ~box.on THEN box
  ELSE [box EXCEPT !.got = [r \in ConnIds |-> box.got[r] \o ReceivedFor(r, o)]]

(* ------------------------------------------------------------------ *)
(* Handshake                                                           *)
(* ------------------------------------------------------------------ *)

\* jwt.verify(token, secret): the payload, or an error for a string that is
\* not a token, a signature made with another key or an expiry that has passed.
JwtVerify(t, secret, clock) ==
  IF "key" \notin DOMAIN t THEN [error |-> "JsonWebTokenError"]
  ELSE IF t.key # secret THEN [error |-> "JsonWebTokenError"]
  ELSE IF clock >= t.payload.exp THEN [error |-> "TokenExpiredError"]
  ELSE t.payload

JwtErrors == {[error |-> "JsonWebTokenError"], [error |-> "TokenExpiredError"]}

AuthenticationError == [error |-> "Authentication error"]

\* The middleware with jwt.decode in place of jwt.verify: nothing is checked.
AuthenticateUnverified(t, clock) ==
  IF t = NoToken THEN AuthenticationError ELSE t.payload

\* The io.use middleware: the decoded user, or "Authentication error".
Authenticate(t, clock) ==
  IF t = NoToken THEN AuthenticationError
  ELSE IF JwtVerify(t, Secret, clock) \in JwtErrors THEN AuthenticationError
  ELSE JwtVerify(t, Secret, clock)

\* The next socket id: ids are handed out in order.
NextConn(c) ==
  \E i \in 1..Len(Conns) :
    /\ Conns[i] = c
    /\ status[c] = "idle"
    /\ \A j \in 1..(i - 1) : status[Conns[j]] # "idle"

\* The connection handler without its socket.join.
ConnectionHandlerNoJoin(c, decoded) ==
  /\ handlers' = handlers \cup {c}
  /\ rooms' = rooms

\* The io.on("connection") callback: join the user's own room and register
\* the event handlers.
ConnectionHandler(c, decoded) ==
  /\ handlers' = handlers \cup {c}
  /\ rooms' = SocketJoin(rooms, status', c, UserRoom(decoded.id))

\* The handshake announcing the user as online to everyone.
HandshakeAnnounced(c, t) ==
  /\ process = "up"
  /\ NextConn(c)
  /\ token' = [token EXCEPT ![c] = t]
  /\ LET decoded == Authenticate(t, now) IN
       IF decoded = AuthenticationError
         THEN /\ status' = [status EXCEPT ![c] = "refused"]
              /\ out' = <<>>
              /\ UNCHANGED <<user, handlers, rooms>>
         ELSE /\ status' = [status EXCEPT ![c] = "connected"]
              /\ user' = [user EXCEPT ![c] = decoded]
              /\ ConnectionHandler(c, decoded)
              /\ out' = <<IoEmit(status', c, "user-presence-change",
                                 [userId |-> decoded.id, status |-> "online"])>>
  /\ last' = [event |-> "connection", conn |-> c]
  /\ inbox' = Deliver(inbox, out')
  /\ UNCHANGED restVars
  /\ UNCHANGED <<process, participants, now, projectMembers, pending>>

\* A client opens a connection presenting token t.
Handshake(c, t) ==
  /\ process = "up"
  /\ NextConn(c)
  /\ token' = [token EXCEPT ![c] = t]
  /\ LET decoded == Authenticate(t, now) IN
       IF decoded = AuthenticationError
         THEN /\ status' = [status EXCEPT ![c] = "refused"]
              /\ UNCHANGED <<user, handlers, rooms>>
         ELSE /\ status' = [status EXCEPT ![c] = "connected"]
              /\ user' = [user EXCEPT ![c] = decoded]
              /\ ConnectionHandler(c, decoded)
  /\ last' = [event |-> "connection", conn |-> c]
  /\ out' = <<>>
  /\ inbox' = Deliver(inbox, out')
  /\ UNCHANGED restVars
  /\ UNCHANGED <<process, participants, now, projectMembers, pending>>

(* ------------------------------------------------------------------ *)
(* Suspended handlers                                                  *)
(* ------------------------------------------------------------------ *)

\* A handler suspended at "await prisma...": the socket it closes over, the
\* event and its argument, the lookup it awaits and what it has read so far.
Suspended(c, event, id, await, projectId) ==
  [conn |-> c, event |-> event, id |-> id, await |-> await, projectId |-> projectId]

IsPending(h) == h \in BagToSet(pending)

Suspend(h) == pending (+) SetToBag({h})

Resume(h) == pending (-) SetToBag({h})

\* Events are handed to handlers whether or not the socket is still open.
DispatchesAfterClose(c) == c \in handlers

\* The token verified again before every event.
DispatchesVerified(c) ==
  /\ status[c] = "connected"
  /\ c \in handlers
  /\ Authenticate(token[c], now) # AuthenticationError

\* The transport hands an event to its handler only while the socket is open.
Dispatches(c) == status[c] = "connected" /\ c \in handlers

\* An inbound event reaching its handler.
Inbound(event, c, data) == [event |-> event, conn |-> c, data |-> data]

\* The room a suspended join handler is about.
TargetRoom(h) ==
  IF h.event = "join-conversation" THEN ConversationRoom(h.id) ELSE DocumentRoom(h.id)

\* An awaited lookup settling for handler h: "rejected", "null" or "found";
\* held tells whether the socket was in the target room already.
Settled(h, lookup) ==
  [event |-> h.event, conn |-> h.conn, id |-> h.id, await |-> h.await, lookup |-> lookup,
   held |-> IsMember(rooms, TargetRoom(h), h.conn)]

Outcome(rejects, row) ==
  IF rejects THEN "rejected" ELSE IF row.found THEN "found" ELSE "null"

(* ------------------------------------------------------------------ *)
(* join-conversation                                                   *)
(* ------------------------------------------------------------------ *)

\* socket.on("join-conversation"): the handler runs up to its await.
JoinConversation(c, conversationId) ==
  /\ Dispatches(c)
  /\ BagCardinality(pending) < MaxPending
  /\ pending' = Suspend(Suspended(c, "join-conversation", conversationId, "participant", None))
  /\ last' = Inbound("join-conversation", c, conversationId)
  /\ out' = <<>>
  /\ inbox' = Deliver(inbox, out')
  /\ UNCHANGED restVars
  /\ UNCHANGED <<process, participants, now, status, token, user, handlers, rooms, projectMembers>>

\* The handler without its "if (participant)".
JoinConversationThenUnchecked(h, participant) ==
  rooms' = SocketJoin(rooms, status, h.conn, ConversationRoom(h.id))

\* What the handler does with the participant row it awaited.
JoinConversationThen(h, participant) ==
  IF participant.found
    THEN rooms' = SocketJoin(rooms, status, h.conn, ConversationRoom(h.id))
    ELSE rooms' = rooms

\* The participant lookup settles: it rejects (caught and logged), or it
\* resolves and the handler runs to its end.
JoinConversationResume(h, rejects) ==
  /\ IsPending(h)
  /\ h.event = "join-conversation"
  /\ pending' = Resume(h)
  /\ LET participant == FindParticipant(h.id, user[h.conn].id) IN
       /\ last' = Settled(h, Outcome(rejects, participant))
       /\ IF rejects
            THEN rooms' = rooms
            ELSE JoinConversationThen(h, participant)
  /\ out' = <<>>
  /\ inbox' = Deliver(inbox, out')
  /\ UNCHANGED restVars
  /\ UNCHANGED <<process, participants, now, status, token, user, handlers, projectMembers>>

(* ------------------------------------------------------------------ *)
(* join-document                                                       *)
(* ------------------------------------------------------------------ *)

\* socket.on("join-document"): the handler runs up to its first await.
JoinDocument(c, documentId) ==
  /\ Dispatches(c)
  /\ BagCardinality(pending) < MaxPending
  /\ pending' = Suspend(Suspended(c, "join-document", documentId, "document", None))
  /\ last' = Inbound("join-document", c, documentId)
  /\ out' = <<>>
  /\ inbox' = Deliver(inbox, out')
  /\ UNCHANGED restVars
  /\ UNCHANGED <<process, participants, now, status, token, user, handlers, rooms, projectMembers>>

\* The handler going on to its second lookup whatever the first one gave.
JoinDocumentFoundAnyway(h, rejects) ==
  /\ IsPending(h)
  /\ h.event = "join-document"
  /\ h.await = "document"
  /\ LET document == FindDocument(h.id) IN
       /\ last' = Settled(h, Outcome(rejects, document))
       /\ pending' = Resume(h) (+) SetToBag({Suspended(h.conn, h.event, h.id,
                                                      "projectMember", "p1")})
  /\ out' = <<>>
  /\ inbox' = Deliver(inbox, out')
  /\ UNCHANGED restVars
  /\ UNCHANGED <<process, participants, now, status, token, user, handlers, rooms, projectMembers>>

\* The document lookup settles: rejected, no such document (return), or on
\* to the second await with the document's project.
JoinDocumentFound(h, rejects) ==
  /\ IsPending(h)
  /\ h.event = "join-document"
  /\ h.await = "document"
  /\ LET document == FindDocument(h.id) IN
       /\ last' = Settled(h, Outcome(rejects, document))
       /\ IF rejects \/ ~document.found
            THEN pending' = Resume(h)
            ELSE pending' = Resume(h) (+) SetToBag({Suspended(h.conn, h.event, h.id,
                                             "projectMember", document.projectId)})
  /\ out' = <<>>
  /\ inbox' = Deliver(inbox, out')
  /\ UNCHANGED restVars
  /\ UNCHANGED <<process, participants, now, status, token, user, handlers, rooms, projectMembers>>

\* user-joined without the document it is about.
UserJoinedNoDocument(c, documentId) == [userId |-> user[c].id]

\* The payload of user-joined.
UserJoined(c, documentId) == [userId |-> user[c].id, documentId |-> documentId]

\* The handler notifying the room only when the socket was not in it yet.
JoinDocumentThenOnce(h, projectMember) ==
  IF projectMember.found
    THEN /\ rooms' = SocketJoin(rooms, status, h.conn, DocumentRoom(h.id))
         /\ out' = IF IsMember(rooms, DocumentRoom(h.id), h.conn) THEN <<>>
                   ELSE <<SocketToEmit(rooms', status, h.conn, DocumentRoom(h.id),
                                       "user-joined", UserJoined(h.conn, h.id))>>
    ELSE /\ rooms' = rooms
         /\ out' = <<>>

\* The handler without its "if (projectMember)".
JoinDocumentThenUnchecked(h, projectMember) ==
  /\ rooms' = SocketJoin(rooms, status, h.conn, DocumentRoom(h.id))
  /\ out' = <<SocketToEmit(rooms', status, h.conn, DocumentRoom(h.id), "user-joined",
                           UserJoined(h.conn, h.id))>>

\* What the handler does with the project member row it awaited: join the
\* room and notify the others in it.
JoinDocumentThen(h, projectMember) ==
  IF projectMember.found
    THEN /\ rooms' = SocketJoin(rooms, status, h.conn, DocumentRoom(h.id))
         /\ out' = <<SocketToEmit(rooms', status, h.conn, DocumentRoom(h.id), "user-joined",
                                  UserJoined(h.conn, h.id))>>
    ELSE /\ rooms' = rooms
         /\ out' = <<>>

\* The project member lookup settles.
JoinDocumentResume(h, rejects) ==
  /\ IsPending(h)
  /\ h.event = "join-document"
  /\ h.await = "projectMember"
  /\ pending' = Resume(h)
  /\ LET projectMember == FindProjectMember(h.projectId, user[h.conn].id) IN
       /\ last' = Settled(h, Outcome(rejects, projectMember))
       /\ IF rejects
            THEN /\ rooms' = rooms
                 /\ out' = <<>>
            ELSE JoinDocumentThen(h, projectMember)
  /\ inbox' = Deliver(inbox, out')
  /\ UNCHANGED restVars
  /\ UNCHANGED <<process, participants, now, status, token, user, handlers, projectMembers>>

(* ------------------------------------------------------------------ *)
(* document-change, new-message, typing                                *)
(* ------------------------------------------------------------------ *)

\* What a client may send with document-change: the three fields the handler
\* reads and a userId of its own choosing, or nothing at all.
DocumentChangeData ==
  [documentId : BroadcastDocIds, content : Contents, position : Positions, userId : ClaimedIds]
    \cup {Undefined}

\* The payload the handler re-broadcasts.
DocumentChanged(c, data) ==
  [documentId |-> data.documentId, content |-> data.content,
   position |-> data.position, userId |-> user[c].id]

\* socket.on("document-change"): destructuring undefined throws inside the
\* try, the catch logs it and nothing is emitted.
DocumentChange(c, data) ==
  /\ Dispatches(c)
  /\ last' = Inbound("document-change", c, data)
  /\ out' = IF data = Undefined THEN <<>>
            ELSE <<SocketToEmit(rooms, status, c, DocumentRoom(data.documentId),
                                "document-change", DocumentChanged(c, data))>>
  /\ inbox' = Deliver(inbox, out')
  /\ UNCHANGED restVars
  /\ UNCHANGED <<process, participants, now, status, token, user, handlers, rooms, projectMembers, pending>>

\* What a client may send with new-message.
Messages == [id : {"m1"}, content : Contents, senderId : ClaimedIds, createdAt : {"T"}]

NewMessageData == [conversationId : BroadcastConvIds, message : Messages] \cup {Undefined}

\* The summary with the sender the client wrote into its message.
MessageSummaryAsSent(c, data) ==
  [conversationId |-> data.conversationId,
   message |-> [id |-> data.message.id, content |-> data.message.content,
                senderId |-> data.message.senderId, createdAt |-> data.message.createdAt]]

\* The payload the handler re-broadcasts.
MessageSummary(c, data) ==
  [conversationId |-> data.conversationId,
   message |-> [id |-> data.message.id, content |-> data.message.content,
                senderId |-> user[c].id, createdAt |-> data.message.createdAt]]

\* socket.on("new-message"): destructuring undefined throws inside the try,
\* the catch logs it and nothing is emitted.
NewMessage(c, data) ==
  /\ Dispatches(c)
  /\ last' = Inbound("new-message", c, data)
  /\ out' = IF data = Undefined THEN <<>>
            ELSE <<SocketToEmit(rooms, status, c, ConversationRoom(data.conversationId),
                                "new-message", MessageSummary(c, data))>>
  /\ inbox' = Deliver(inbox, out')
  /\ UNCHANGED restVars
  /\ UNCHANGED <<process, participants, now, status, token, user, handlers, rooms, projectMembers, pending>>

\* What a client may send with typing.
TypingData ==
  [conversationId : BroadcastConvIds, isTyping : IsTypingValues, userId : ClaimedIds]
    \cup {Undefined}

\* The payload the handler broadcasts.
UserTyping(c, data) == [userId |-> user[c].id, isTyping |-> data.isTyping]

\* An exception leaves a listener that has no try around it: the library
\* calls listeners from process.nextTick with no catch and index.ts installs
\* no uncaughtException handler, so the process exits. Every open connection
\* closes with it, no disconnect handler runs, the suspended handlers and the
\* room map are gone.
UncaughtException ==
  /\ process' = "crashed"
  /\ status' = [r \in ConnIds |-> IF status[r] = "connected" THEN "disconnected" ELSE status[r]]
  /\ rooms' = EmptyBag
  /\ pending' = EmptyBag
  /\ out' = <<>>

\* socket.on("typing"): the one listener with no try/catch. Destructuring
\* undefined throws a TypeError out of it.
Typing(c, data) ==
  /\ Dispatches(c)
  /\ last' = Inbound("typing", c, data)
  /\ IF data = Undefined
       THEN UncaughtException
       ELSE /\ out' = <<SocketToEmit(rooms, status, c, ConversationRoom(data.conversationId),
                                     "user-typing", UserTyping(c, data))>>
            /\ UNCHANGED <<process, status, rooms, pending>>
  /\ inbox' = Deliver(inbox, out')
  /\ UNCHANGED restVars
  /\ UNCHANGED <<participants, now, token, user, handlers, projectMembers>>

(* ------------------------------------------------------------------ *)
(* set-presence, disconnect                                            *)
(* ------------------------------------------------------------------ *)

\* What a client may send with set-presence: any string.
Statuses == {"typing", "offline", "gone fishing"}

\* The status normalised to the states the presence tracker names.
PresenceChangeValidated(c, presence) ==
  [userId |-> user[c].id,
   status |-> IF presence \in {"online", "offline", "typing"} THEN presence ELSE "online"]

PresenceChange(c, presence) == [userId |-> user[c].id, status |-> presence]

\* socket.on("set-presence")
SetPresence(c, presence) ==
  /\ Dispatches(c)
  /\ last' = Inbound("set-presence", c, presence)
  /\ out' = <<IoEmit(status, c, "user-presence-change", PresenceChange(c, presence))>>
  /\ inbox' = Deliver(inbox, out')
  /\ UNCHANGED restVars
  /\ UNCHANGED <<process, participants, now, status, token, user, handlers, rooms, projectMembers, pending>>

\* The handler emitting to the user's own room instead of to everyone.
DisconnectHandlerOwnRoom(st, c) ==
  <<SocketToEmit(rooms, st, c, UserRoom(user[c].id), "user-presence-change",
                 PresenceChange(c, "offline"))>>

\* The handler emitting only when the user's last open socket closes.
DisconnectHandlerLastOnly(st, c) ==
  IF \E r \in Live(st) : user[r].id = user[c].id THEN <<>>
  ELSE <<IoEmit(st, c, "user-presence-change", PresenceChange(c, "offline"))>>

\* What the disconnect handler emits.
DisconnectHandler(st, c) ==
  <<IoEmit(st, c, "user-presence-change", PresenceChange(c, "offline"))>>

\* The socket closes (the client leaves, or the ping times out): it leaves
\* all its rooms and the namespace, then the disconnect handler runs.
Disconnect(c) ==
  /\ status[c] = "connected"
  /\ status' = [status EXCEPT ![c] = "disconnected"]
  /\ rooms' = LeaveAll(rooms, c)
  /\ last' = Inbound("disconnect", c, None)
  /\ out' = DisconnectHandler(status', c)
  /\ inbox' = Deliver(inbox, out')
  /\ UNCHANGED restVars
  /\ UNCHANGED <<process, participants, now, token, user, handlers, projectMembers, pending>>

(* ------------------------------------------------------------------ *)
(* Persistence changes made by the REST layer                          *)
(* ------------------------------------------------------------------ *)

\* The members the model removes (u1 stays a member throughout).
Removable == {"u2"}

\* DELETE /:projectId/members/:userId
RemoveProjectMember(projectId, userId) ==
  /\ process = "up"
  /\ <<projectId, userId>> \in projectMembers
  /\ projectMembers' = projectMembers \ {<<projectId, userId>>}
  /\ last' = NoStep
  /\ out' = <<>>
  /\ inbox' = Deliver(inbox, out')
  /\ UNCHANGED restVars
  /\ UNCHANGED <<process, participants, now, status, token, user, handlers, rooms, pending>>

\* A ConversationParticipant row is deleted in the database. No route of this
\* backend does it: the table is changed from outside the process.
RemoveParticipant(conversationId, userId) ==
  /\ <<conversationId, userId>> \in participants
  /\ participants' = participants \ {<<conversationId, userId>>}
  /\ last' = NoStep
  /\ out' = <<>>
  /\ inbox' = Deliver(inbox, out')
  /\ UNCHANGED restVars
  /\ UNCHANGED <<process, now, status, token, user, handlers, rooms, projectMembers, pending>>

\* Time passes.
Tick ==
  /\ now < MaxNow
  /\ now' = now + 1
  /\ last' = NoStep
  /\ out' = <<>>
  /\ inbox' = Deliver(inbox, out')
  /\ UNCHANGED restVars
  /\ UNCHANGED <<process, participants, status, token, user, handlers, rooms, projectMembers,
                 pending>>

(* ------------------------------------------------------------------ *)
(* REST layer: credentials                                             *)
(* ------------------------------------------------------------------ *)

\* Longest token string a client presents, in symbols.
MaxLen == 3

\* A string is a sequence of symbols: the space, or a run of characters
\* without a space. A run is a signed token, or some other text.
Sp == [sym |-> " "]

Text(w) == [sym |-> w]

Jwts == Tokens \ {NoToken}

\* Two runs side by side would be one run, so a space separates them.
IsString(s) == \A i \in 1..(Len(s) - 1) : s[i] = Sp \/ s[i + 1] = Sp

\* The token strings a client presents: "" among them.
TokenStrings ==
  {s \in UNION {[1..n -> {Sp, Text("abc")} \cup Jwts] : n \in 0..MaxLen} : IsString(s)}

\* req.headers["authorization"]: undefined, or the header's string.
NoHeader == [present |-> FALSE]

\* A header value as the HTTP parser hands it over: without the spaces at
\* its ends.
Trim(s) ==
  LET inner == {k \in 1..Len(s) : s[k] # Sp} IN
  IF inner = {} THEN <<>>
  ELSE SubSeq(s, CHOOSE a \in inner : \A k \in inner : a <= k,
                 CHOOSE b \in inner : \A k \in inner : b >= k)

Header(s) == [present |-> TRUE, value |-> Trim(s)]

\* The client's header for a token string: "Bearer " + token.
BearerHeader(str) == Header(<<Text("Bearer"), Sp>> \o str)

\* The Authorization headers the routers are tried with: none, a scheme
\* alone, another scheme, a token with no scheme, and "Bearer " followed by
\* nothing, a space, some text or a signed token.
Headers ==
  {NoHeader, Header(<<Text("Bearer")>>), Header(<<Text("Basic"), Sp, Text("abc")>>),
   Header(<<SignedToken("u1", Secret, 1)>>)}
    \cup {BearerHeader(str) : str \in {s \in TokenStrings : Len(s) <= 1}}

\* String.prototype.split(" "): the pieces between the spaces, empty pieces
\* included.
RECURSIVE Split(_)
Split(s) ==
  IF \A i \in 1..Len(s) : s[i] # Sp THEN <<s>>
  ELSE LET i == CHOOSE k \in 1..Len(s) : s[k] = Sp /\ \A j \in 1..(k - 1) : s[j] # Sp
       IN <<SubSeq(s, 1, i - 1)>> \o Split(SubSeq(s, i + 1, Len(s)))

\* A string as the token checks see it: "" is falsy like a missing token, one
\* signed token is that token, anything else is a string jwt.verify cannot
\* parse.
StringToken(str) ==
  IF str = <<>> THEN NoToken
  ELSE IF Len(str) = 1 /\ str[1] \in Jwts THEN str[1]
  ELSE [malformed |-> str]

\* authHeader && authHeader.split(" ")[1]
HeaderToken(header) ==
  IF header = NoHeader THEN NoToken
  ELSE IF Len(Split(header.value)) < 2 THEN NoToken
  ELSE StringToken(Split(header.value)[2])

\* authenticateToken with jwt.decode in place of jwt.verify.
AuthenticateTokenUnverified(header, clock) ==
  LET t == HeaderToken(header) IN
  IF t = NoToken THEN [next |-> FALSE, status |-> 401, user |-> NoUser]
  ELSE IF "key" \notin DOMAIN t THEN [next |-> FALSE, status |-> 403, user |-> NoUser]
  ELSE [next |-> TRUE, status |-> None, user |-> t.payload]

\* authenticateToken: 401 without a token, 403 when jwt.verify throws, else
\* req.user is the decoded payload and next() is called.
AuthenticateToken(header, clock) ==
  LET t == HeaderToken(header) IN
  IF t = NoToken THEN [next |-> FALSE, status |-> 401, user |-> NoUser]
  ELSE IF JwtVerify(t, Secret, clock) \in JwtErrors
    THEN [next |-> FALSE, status |-> 403, user |-> NoUser]
  ELSE [next |-> TRUE, status |-> None, user |-> JwtVerify(t, Secret, clock)]

(* ------------------------------------------------------------------ *)
(* REST layer: the middleware in front of the routers                  *)
(* ------------------------------------------------------------------ *)

\* rateLimit({windowMs: 15 * 60 * 1000, max: 100})
RateMax == 100

\* The routers mounted behind authenticateToken.
Mounted ==
  {"/api/users", "/api/projects", "/api/collaboration", "/api/guilds",
   "/api/mentors", "/api/messages", "/api/search", "/api/ai"}

NoRequest == [route |-> None]

\* Document contents: v0 is the stored one, v1 and v2 are what clients send.
NewContents == {"v1", "v2"}

InitRest ==
  /\ totalHits = 0
  /\ http = NoRequest
  /\ calls = EmptyBag
  /\ db = [served |-> {},
           conversations |-> {[id |-> "k1", type |-> "GROUP"]},
           lastRead |-> [row \in {<<"k1", "u1">>, <<"k1", "u2">>} |-> -1],
           updatedAt |-> [k \in {"k1"} |-> -1],
           messages |-> <<>>,
           content |-> [d \in {"d1"} |-> "v0"],
           edits |-> <<>>]

\* A router's handler, reached with req.user set: what it does to the
\* database is recorded as the user it served.
RouteHandler(route, header, decoded) ==
  /\ http' = [route |-> route, header |-> header, at |-> now, status |-> 200,
              user |-> decoded]
  /\ db' = [db EXCEPT !.served = @ \cup {decoded.id}]

\* app.use(route, authenticateToken, router)
Mount(route, header) ==
  LET auth == AuthenticateToken(header, now) IN
  IF auth.next THEN RouteHandler(route, header, auth.user)
  ELSE /\ http' = [route |-> route, header |-> header, at |-> now,
                   status |-> auth.status, user |-> NoUser]
       /\ db' = db

\* A request to a mounted router: app.use(limiter) counts it and answers 429
\* once the window holds more than max requests; otherwise the mount runs.
ApiRequest(route, header) ==
  /\ process = "up"
  /\ totalHits <= RateMax
  /\ totalHits' = totalHits + 1
  /\ IF totalHits' > RateMax
       THEN /\ http' = [route |-> route, header |-> header, at |-> now,
                        status |-> 429, user |-> NoUser]
            /\ db' = db
       ELSE Mount(route, header)
  /\ UNCHANGED <<calls, participants, projectMembers>>
  /\ UNCHANGED socketVars

\* The limiter's window ends: its store resets the count.
WindowReset ==
  /\ totalHits > 0
  /\ totalHits' = 0
  /\ http' = NoRequest
  /\ UNCHANGED <<calls, db, participants, projectMembers>>
  /\ UNCHANGED socketVars

(* ------------------------------------------------------------------ *)
(* REST layer: suspended route handlers                                *)
(* ------------------------------------------------------------------ *)

\* Most route handlers suspended at an await at the same time.
MaxCalls == 2

InFlight(h) == h \in BagToSet(calls)

\* A route handler reaching an await, going on to its next await, and
\* ending.
Await(h) == calls (+) SetToBag({h})

Proceed(h, stage) == (calls (-) SetToBag({h})) (+) SetToBag({[h EXCEPT !.stage = stage]})

Return(h) == calls (-) SetToBag({h})

\* res.status(status).json(body) of the handler h.
Respond(h, code, body) ==
  [route |-> h.route, user |-> h.user, status |-> code, body |-> body]

\* catch (error) { res.status(500).json({error: "Server error"}) }
ServerError(h) ==
  /\ calls' = Return(h)
  /\ http' = Respond(h, 500, "Server error")
  /\ UNCHANGED <<db, participants>>

(* ------------------------------------------------------------------ *)
(* POST /conversations                                                 *)
(* ------------------------------------------------------------------ *)

\* Most conversations the modelled requests create.
MaxConversations == 2

\* The ids of created conversations, in creation order (uuid()).
CreatedIds == <<"k2", "k3", "k4", "k5">>

Created == {k \in db.conversations : k.id # "k1"}

ConversationTypes == {"DIRECT", "GROUP"}

\* req.body.participantIds
ParticipantLists == UNION {[1..n -> Users] : n \in 1..2}

\* if (!participantIds.includes(req.user.id)) participantIds.push(req.user.id)
WithRequester(participantIds, u) ==
  IF \E i \in 1..Len(participantIds) : participantIds[i] = u
    THEN participantIds ELSE Append(participantIds, u)

\* prisma.conversation.findFirst: the DIRECT conversations with a participant
\* row for a and one for b.
ExistingDirect(a, b) ==
  {k \in db.conversations :
     /\ k.type = "DIRECT"
     /\ <<k.id, a>> \in participants
     /\ <<k.id, b>> \in participants}

\* The handler runs up to its first await: the lookup of an existing DIRECT
\* conversation, or the create.
PostConversations(u, type, participantIds) ==
  /\ process = "up"
  /\ BagCardinality(calls) < MaxCalls
  /\ LET ids == WithRequester(participantIds, u) IN
       calls' = Await([route |-> "POST /conversations", user |-> u, type |-> type,
                       participantIds |-> ids,
                       stage |-> IF type = "DIRECT" /\ Len(ids) = 2
                                   THEN "findFirst" ELSE "create"])
  /\ http' = NoRequest
  /\ UNCHANGED <<totalHits, db, participants, projectMembers>>
  /\ UNCHANGED socketVars

\* findFirst settles: the existing conversation is returned, or the handler
\* goes on to create one.
PostConversationsFound(h, rejects) ==
  /\ InFlight(h)
  /\ h.route = "POST /conversations"
  /\ h.stage = "findFirst"
  /\ IF rejects THEN ServerError(h)
     ELSE LET existing == ExistingDirect(h.participantIds[1], h.participantIds[2]) IN
          /\ IF existing = {}
               THEN /\ calls' = Proceed(h, "create")
                    /\ http' = NoRequest
               ELSE /\ calls' = Return(h)
                    /\ \E k \in existing : http' = Respond(h, 200, k.id)
          /\ UNCHANGED <<db, participants>>
  /\ UNCHANGED <<totalHits, projectMembers>>
  /\ UNCHANGED socketVars

\* prisma.conversation.create with its nested participant rows settles. Two
\* rows for one user break @@unique([userId, conversationId]): nothing is
\* created.
PostConversationsCreate(h, rejects) ==
  /\ InFlight(h)
  /\ h.route = "POST /conversations"
  /\ h.stage = "create"
  /\ Cardinality(Created) < MaxConversations
  /\ LET ids == h.participantIds
         id == CreatedIds[Cardinality(Created) + 1]
         rows == {<<id, ids[i]>> : i \in 1..Len(ids)}
     IN IF rejects \/ Cardinality(rows) < Len(ids) THEN ServerError(h)
        ELSE /\ db' = [db EXCEPT
                        !.conversations = @ \cup {[id |-> id, type |-> h.type]},
                        !.lastRead = [row \in DOMAIN @ \cup rows |->
                                        IF row \in rows THEN now ELSE @[row]],
                        !.updatedAt = [k \in DOMAIN @ \cup {id} |->
                                         IF k = id THEN now ELSE @[k]]]
             /\ participants' = participants \cup rows
             /\ calls' = Return(h)
             /\ http' = Respond(h, 201, id)
  /\ UNCHANGED <<totalHits, projectMembers>>
  /\ UNCHANGED socketVars

(* ------------------------------------------------------------------ *)
(* PUT /documents/:id                                                  *)
(* ------------------------------------------------------------------ *)

\* Most DocumentEdit rows the modelled requests create.
MaxEdits == 2

\* The authenticated users of the REST requests: u3 is a member of no
\* project and a participant of no conversation.
Requesters == Users \cup {"u3"}

\* document.content || ""
OrEmpty(content) == IF content = None THEN "" ELSE content

PutDocumentCall(u, id, content, stage, read) ==
  [route |-> "PUT /documents/:id", user |-> u, id |-> id, content |-> content,
   stage |-> stage, read |-> read]

\* The handler runs up to its first await, the lookup of the document.
PutDocument(u, id, content) ==
  /\ process = "up"
  /\ BagCardinality(calls) < MaxCalls
  /\ Len(db.edits) + BagCardinality(calls) < MaxEdits
  /\ calls' = Await(PutDocumentCall(u, id, content, "findUnique", None))
  /\ http' = NoRequest
  /\ UNCHANGED <<totalHits, db, participants, projectMembers>>
  /\ UNCHANGED socketVars

\* findUnique settles: 404 without the document, else the handler keeps the
\* row it read and awaits the project member lookup.
PutDocumentFound(h, rejects) ==
  /\ InFlight(h)
  /\ h.route = "PUT /documents/:id"
  /\ h.stage = "findUnique"
  /\ IF rejects THEN ServerError(h)
     ELSE /\ IF h.id \notin DOMAIN db.content
               THEN /\ calls' = Return(h)
                    /\ http' = Respond(h, 404, "Document not found")
               ELSE /\ calls' = Return(h) (+) SetToBag({PutDocumentCall(h.user, h.id,
                                           h.content, "findFirst", db.content[h.id])})
                    /\ http' = NoRequest
          /\ UNCHANGED <<db, participants>>
  /\ UNCHANGED <<totalHits, projectMembers>>
  /\ UNCHANGED socketVars

\* The project member lookup settles: 403 for a non-member, else the handler
\* awaits the creation of the edit record.
PutDocumentAuthorized(h, rejects) ==
  /\ InFlight(h)
  /\ h.route = "PUT /documents/:id"
  /\ h.stage = "findFirst"
  /\ IF rejects THEN ServerError(h)
     ELSE /\ IF ~FindProjectMember(documents[h.id], h.user).found
               THEN /\ calls' = Return(h)
                    /\ http' = Respond(h, 403, "Not authorized to update this document")
               ELSE /\ calls' = Proceed(h, "edit")
                    /\ http' = NoRequest
          /\ UNCHANGED <<db, participants>>
  /\ UNCHANGED <<totalHits, projectMembers>>
  /\ UNCHANGED socketVars

\* documentEdit.create settles: the edit holds the content the handler read
\* at its start.
PutDocumentEdit(h, rejects) ==
  /\ InFlight(h)
  /\ h.route = "PUT /documents/:id"
  /\ h.stage = "edit"
  /\ IF rejects THEN ServerError(h)
     ELSE /\ db' = [db EXCEPT !.edits = Append(@, [documentId |-> h.id,
                                                    content |-> OrEmpty(h.read),
                                                    userId |-> h.user])]
          /\ calls' = Proceed(h, "update")
          /\ http' = NoRequest
          /\ UNCHANGED participants
  /\ UNCHANGED <<totalHits, projectMembers>>
  /\ UNCHANGED socketVars

\* document.update settles: the content is overwritten and the updated
\* document is the response.
PutDocumentUpdate(h, rejects) ==
  /\ InFlight(h)
  /\ h.route = "PUT /documents/:id"
  /\ h.stage = "update"
  /\ IF rejects THEN ServerError(h)
     ELSE /\ db' = [db EXCEPT !.content[h.id] = h.content]
          /\ calls' = Return(h)
          /\ http' = Respond(h, 200, h.content)
          /\ UNCHANGED participants
  /\ UNCHANGED <<totalHits, projectMembers>>
  /\ UNCHANGED socketVars

(* ------------------------------------------------------------------ *)
(* GET and POST /conversations/:id/messages                            *)
(* ------------------------------------------------------------------ *)

\* Most Message rows the modelled requests create.
MaxMessages == 2

GetMessagesRoute == "GET /conversations/:id/messages"

PostMessageRoute == "POST /conversations/:id/messages"

NoMessage == [conversationId |-> None]

\* A handler of one of the two routes, suspended at an await: what it awaits
\* (stage), otherParticipants[0].userId and the message it created.
MessageCall(route, u, id, content, stage, receiver, message) ==
  [route |-> route, user |-> u, id |-> id, content |-> content, stage |-> stage,
   receiver |-> receiver, message |-> message]

\* An awaited query that changes nothing settles: it rejects (500), or the
\* handler returns the response code, or it goes on to its next await.
Query(h, rejects, returns, code, body, stage) ==
  IF rejects THEN ServerError(h)
  ELSE /\ IF returns
            THEN /\ calls' = Return(h)
                 /\ http' = Respond(h, code, body)
            ELSE /\ calls' = Proceed(h, stage)
                 /\ http' = NoRequest
       /\ UNCHANGED <<db, participants>>

\* conversationParticipant.update({where: {id: participant.id}, data:
\* {lastRead: new Date()}})
UpdateLastRead(h) == [db EXCEPT !.lastRead[<<h.id, h.user>>] = now]

\* GET: the handler runs up to its participant lookup.
GetMessages(u, id) ==
  /\ process = "up"
  /\ BagCardinality(calls) < MaxCalls
  /\ calls' = Await(MessageCall(GetMessagesRoute, u, id, None, "participant", None,
                                NoMessage))
  /\ http' = NoRequest
  /\ UNCHANGED <<totalHits, db, participants, projectMembers>>
  /\ UNCHANGED socketVars

\* GET: the participant lookup settles: 403 for a non-participant.
GetMessagesChecked(h, rejects) ==
  /\ InFlight(h)
  /\ h.route = GetMessagesRoute
  /\ h.stage = "participant"
  /\ Query(h, rejects, ~FindParticipant(h.id, h.user).found, 403,
           "Not authorized to view this conversation", "findMany")
  /\ UNCHANGED <<totalHits, projectMembers>>
  /\ UNCHANGED socketVars

\* GET: message.findMany settles.
GetMessagesFound(h, rejects) ==
  /\ InFlight(h)
  /\ h.route = GetMessagesRoute
  /\ h.stage = "findMany"
  /\ Query(h, rejects, FALSE, 200, "", "lastRead")
  /\ UNCHANGED <<totalHits, projectMembers>>
  /\ UNCHANGED socketVars

\* GET: the update of the reader's lastRead settles.
GetMessagesRead(h, rejects) ==
  /\ InFlight(h)
  /\ h.route = GetMessagesRoute
  /\ h.stage = "lastRead"
  /\ IF rejects \/ <<h.id, h.user>> \notin participants THEN ServerError(h)
     ELSE /\ db' = UpdateLastRead(h)
          /\ calls' = Proceed(h, "count")
          /\ http' = NoRequest
          /\ UNCHANGED participants
  /\ UNCHANGED <<totalHits, projectMembers>>
  /\ UNCHANGED socketVars

\* GET: message.count settles and the messages are the response.
GetMessagesCounted(h, rejects) ==
  /\ InFlight(h)
  /\ h.route = GetMessagesRoute
  /\ h.stage = "count"
  /\ Query(h, rejects, TRUE, 200,
           SelectSeq(db.messages, LAMBDA m : m.conversationId = h.id), "count")
  /\ UNCHANGED <<totalHits, projectMembers>>
  /\ UNCHANGED socketVars

\* POST: the handler runs up to its participant lookup.
PostMessage(u, id, content) ==
  /\ process = "up"
  /\ BagCardinality(calls) < MaxCalls
  /\ Len(db.messages) + BagCardinality(calls) < MaxMessages
  /\ calls' = Await(MessageCall(PostMessageRoute, u, id, content, "participant", None,
                                NoMessage))
  /\ http' = NoRequest
  /\ UNCHANGED <<totalHits, db, participants, projectMembers>>
  /\ UNCHANGED socketVars

\* POST: the participant lookup without its "if (!participant)".
PostMessageCheckedAnyway(h, rejects) ==
  /\ InFlight(h)
  /\ h.route = PostMessageRoute
  /\ h.stage = "participant"
  /\ Query(h, rejects, FALSE, 403, "Not authorized to send messages in this conversation",
           "findMany")
  /\ UNCHANGED <<totalHits, projectMembers>>
  /\ UNCHANGED socketVars

\* POST: the participant lookup settles: 403 for a non-participant.
PostMessageChecked(h, rejects) ==
  /\ InFlight(h)
  /\ h.route = PostMessageRoute
  /\ h.stage = "participant"
  /\ Query(h, rejects, ~FindParticipant(h.id, h.user).found, 403,
           "Not authorized to send messages in this conversation", "findMany")
  /\ UNCHANGED <<totalHits, projectMembers>>
  /\ UNCHANGED socketVars

\* POST: the conversation's participant rows arrive (in no stated order):
\* 400 when the sender is alone, else the first other one is the receiver.
PostMessageOthers(h, rejects) ==
  /\ InFlight(h)
  /\ h.route = PostMessageRoute
  /\ h.stage = "findMany"
  /\ LET otherParticipants == {u \in Requesters : <<h.id, u>> \in participants} \ {h.user} IN
       IF rejects THEN ServerError(h)
       ELSE /\ IF otherParticipants = {}
                 THEN /\ calls' = Return(h)
                      /\ http' = Respond(h, 400, "No other participants in conversation")
                 ELSE /\ \E receiver \in otherParticipants :
                           calls' = Return(h) (+) SetToBag({MessageCall(h.route, h.user,
                                      h.id, h.content, "userParticipant", receiver,
                                      NoMessage)})
                      /\ http' = NoRequest
            /\ UNCHANGED <<db, participants>>
  /\ UNCHANGED <<totalHits, projectMembers>>
  /\ UNCHANGED socketVars

\* POST: the second lookup of the sender's participant row settles.
PostMessageUserParticipant(h, rejects) ==
  /\ InFlight(h)
  /\ h.route = PostMessageRoute
  /\ h.stage = "userParticipant"
  /\ Query(h, rejects, ~FindParticipant(h.id, h.user).found, 404,
           "User participant not found", "count")
  /\ UNCHANGED <<totalHits, projectMembers>>
  /\ UNCHANGED socketVars

\* POST: the count of unread messages settles.
PostMessageCounted(h, rejects) ==
  /\ InFlight(h)
  /\ h.route = PostMessageRoute
  /\ h.stage = "count"
  /\ Query(h, rejects, FALSE, 200, "", "create")
  /\ UNCHANGED <<totalHits, projectMembers>>
  /\ UNCHANGED socketVars

\* POST: message.create settles.
PostMessageCreate(h, rejects) ==
  /\ InFlight(h)
  /\ h.route = PostMessageRoute
  /\ h.stage = "create"
  /\ IF rejects THEN ServerError(h)
     ELSE LET message == [conversationId |-> h.id, senderId |-> h.user,
                          receiverId |-> h.receiver, content |-> h.content]
          IN /\ db' = [db EXCEPT !.messages = Append(@, message)]
             /\ calls' = Return(h) (+) SetToBag({MessageCall(h.route, h.user, h.id,
                           h.content, "updatedAt", h.receiver, message)})
             /\ http' = NoRequest
             /\ UNCHANGED participants
  /\ UNCHANGED <<totalHits, projectMembers>>
  /\ UNCHANGED socketVars

\* POST: the update of the conversation's updatedAt settles.
PostMessageTouch(h, rejects) ==
  /\ InFlight(h)
  /\ h.route = PostMessageRoute
  /\ h.stage = "updatedAt"
  /\ IF rejects \/ h.id \notin DOMAIN db.updatedAt THEN ServerError(h)
     ELSE /\ db' = [db EXCEPT !.updatedAt[h.id] = now]
          /\ calls' = Proceed(h, "lastRead")
          /\ http' = NoRequest
          /\ UNCHANGED participants
  /\ UNCHANGED <<totalHits, projectMembers>>
  /\ UNCHANGED socketVars

\* POST: the update of the sender's lastRead settles and the message is the
\* response.
PostMessageRead(h, rejects) ==
  /\ InFlight(h)
  /\ h.route = PostMessageRoute
  /\ h.stage = "lastRead"
  /\ IF rejects \/ <<h.id, h.user>> \notin participants THEN ServerError(h)
     ELSE /\ db' = UpdateLastRead(h)
          /\ calls' = Return(h)
          /\ http' = Respond(h, 201, h.message)
          /\ UNCHANGED participants
  /\ UNCHANGED <<totalHits, projectMembers>>
  /\ UNCHANGED socketVars

(* ------------------------------------------------------------------ *)
(* Specification                                                       *)
(* ------------------------------------------------------------------ *)

Init ==
  /\ process = "up"
  /\ participants = {<<"k1", "u1">>, <<"k1", "u2">>}
  /\ now = 0
  /\ status = [c \in ConnIds |-> "idle"]
  /\ token = [c \in ConnIds |-> NoToken]
  /\ user = [c \in ConnIds |-> NoUser]
  /\ handlers = {}
  /\ rooms = EmptyBag
  /\ projectMembers = {<<"p1", "u1">>, <<"p1", "u2">>}
  /\ pending = EmptyBag
  /\ last = NoStep
  /\ out = <<>>
  /\ inbox = [on |-> FALSE, got |-> [c \in ConnIds |-> <<>>]]
  /\ InitRest

SuspendedHandlers ==
  [conn : ConnIds, event : {"join-conversation", "join-document"},
   id : ConvIds \cup DocIds, await : {"participant", "document", "projectMember"},
   projectId : {None, "p1"}]

Next ==
  \/ \E c \in ConnIds, t \in Tokens : Handshake(c, t)
  \/ \E c \in ConnIds, id \in ConvIds : JoinConversation(c, id)
  \/ \E h \in SuspendedHandlers, rejects \in BOOLEAN : JoinConversationResume(h, rejects)
  \/ \E c \in ConnIds, id \in DocIds : JoinDocument(c, id)
  \/ \E h \in SuspendedHandlers, rejects \in BOOLEAN : JoinDocumentFound(h, rejects)
  \/ \E h \in SuspendedHandlers, rejects \in BOOLEAN : JoinDocumentResume(h, rejects)
  \/ \E c \in ConnIds, data \in DocumentChangeData : DocumentChange(c, data)
  \/ \E c \in ConnIds, data \in NewMessageData : NewMessage(c, data)
  \/ \E c \in ConnIds, data \in TypingData : Typing(c, data)
  \/ \E c \in ConnIds, presence \in Statuses : SetPresence(c, presence)
  \/ \E c \in ConnIds : Disconnect(c)
  \/ \E u \in Removable : RemoveProjectMember("p1", u)

Spec == Init /\ [][Next]_vars

\* The same program while the clock runs, so that tokens expire.
NextClock ==
  \/ Next
  \/ Tick

SpecClock == Init /\ [][NextClock]_vars

\* The same program while participant rows are deleted under it.
NextRevoked ==
  \/ Next
  \/ \E u \in Removable : RemoveParticipant("k1", u)

SpecRevoked == Init /\ [][NextRevoked]_vars

\* Presence as the clients see it: connections open, set their presence and
\* close, and every client's inbox is recorded.
InitPresence ==
  /\ process = "up"
  /\ participants = {<<"k1", "u1">>, <<"k1", "u2">>}
  /\ now = 0
  /\ status = [c \in ConnIds |-> "idle"]
  /\ token = [c \in ConnIds |-> NoToken]
  /\ user = [c \in ConnIds |-> NoUser]
  /\ handlers = {}
  /\ rooms = EmptyBag
  /\ projectMembers = {<<"p1", "u1">>, <<"p1", "u2">>}
  /\ pending = EmptyBag
  /\ last = NoStep
  /\ out = <<>>
  /\ inbox = [on |-> TRUE, got |-> [c \in ConnIds |-> <<>>]]
  /\ InitRest

NextPresence ==
  \/ \E c \in ConnIds, t \in Tokens : Handshake(c, t)
  \/ \E c \in ConnIds, presence \in Statuses :
       /\ \A r \in ConnIds : Len(inbox.got[r]) < MaxInbox
       /\ SetPresence(c, presence)
  \/ \E c \in ConnIds : Disconnect(c)

SpecPresence == InitPresence /\ [][NextPresence]_vars

\* Joining documents as the clients see it: connections open, join documents
\* and close, and every client's inbox is recorded.
NextJoined ==
  \/ \E c \in ConnIds, t \in Tokens : Handshake(c, t)
  \/ \E c \in ConnIds, id \in DocIds :
       /\ \A r \in ConnIds : Len(inbox.got[r]) < MaxInbox
       /\ JoinDocument(c, id)
  \/ \E h \in SuspendedHandlers, rejects \in BOOLEAN : JoinDocumentFound(h, rejects)
  \/ \E h \in SuspendedHandlers, rejects \in BOOLEAN : JoinDocumentResume(h, rejects)
  \/ \E c \in ConnIds : Disconnect(c)

SpecJoined == InitPresence /\ [][NextJoined]_vars

\* The middleware chain of the mounted routers.
NextRest ==
  \/ \E route \in Mounted, header \in Headers : ApiRequest(route, header)
  \/ WindowReset

SpecRest == Init /\ [][NextRest]_vars

\* One router, asked with every token string as "Bearer <token>".
NextTokens ==
  \/ \E str \in TokenStrings : ApiRequest("/api/users", BearerHeader(str))
  \/ WindowReset

SpecTokens == Init /\ [][NextTokens]_vars

ConversationCalls ==
  [route : {"POST /conversations"}, user : Users, type : ConversationTypes,
   participantIds : UNION {[1..n -> Users] : n \in 1..3}, stage : {"findFirst", "create"}]

\* POST /conversations, its two awaits interleaving between requests.
NextConversations ==
  \/ \E u \in Users, type \in ConversationTypes, participantIds \in ParticipantLists :
       PostConversations(u, type, participantIds)
  \/ \E h \in ConversationCalls, rejects \in BOOLEAN : PostConversationsFound(h, rejects)
  \/ \E h \in ConversationCalls, rejects \in BOOLEAN : PostConversationsCreate(h, rejects)

SpecConversations == Init /\ [][NextConversations]_vars

DocumentCalls ==
  [route : {"PUT /documents/:id"}, user : Requesters, id : DocIds, content : NewContents,
   stage : {"findUnique", "findFirst", "edit", "update"}, read : {None, "v0"} \cup NewContents]

\* PUT /documents/:id, its four awaits interleaving between requests.
NextDocuments ==
  \/ \E u \in Requesters, id \in DocIds, content \in NewContents : PutDocument(u, id, content)
  \/ \E h \in DocumentCalls, rejects \in BOOLEAN : PutDocumentFound(h, rejects)
  \/ \E h \in DocumentCalls, rejects \in BOOLEAN : PutDocumentAuthorized(h, rejects)
  \/ \E h \in DocumentCalls, rejects \in BOOLEAN : PutDocumentEdit(h, rejects)
  \/ \E h \in DocumentCalls, rejects \in BOOLEAN : PutDocumentUpdate(h, rejects)

SpecDocuments == Init /\ [][NextDocuments]_vars

\* The handlers of the two routes that are in flight.
MessageCalls == BagToSet(calls)

\* GET and POST /conversations/:id/messages, their awaits interleaving
\* between requests.
NextMessages ==
  \/ \E u \in Requesters, id \in ConvIds : GetMessages(u, id)
  \/ \E h \in MessageCalls, rejects \in BOOLEAN : GetMessagesChecked(h, rejects)
  \/ \E h \in MessageCalls, rejects \in BOOLEAN : GetMessagesFound(h, rejects)
  \/ \E h \in MessageCalls, rejects \in BOOLEAN : GetMessagesRead(h, rejects)
  \/ \E h \in MessageCalls, rejects \in BOOLEAN : GetMessagesCounted(h, rejects)
  \/ \E u \in Requesters, id \in ConvIds, content \in Contents : PostMessage(u, id, content)
  \/ \E h \in MessageCalls, rejects \in BOOLEAN : PostMessageChecked(h, rejects)
  \/ \E h \in MessageCalls, rejects \in BOOLEAN : PostMessageOthers(h, rejects)
  \/ \E h \in MessageCalls, rejects \in BOOLEAN : PostMessageUserParticipant(h, rejects)
  \/ \E h \in MessageCalls, rejects \in BOOLEAN : PostMessageCounted(h, rejects)
  \/ \E h \in MessageCalls, rejects \in BOOLEAN : PostMessageCreate(h, rejects)
  \/ \E h \in MessageCalls, rejects \in BOOLEAN : PostMessageTouch(h, rejects)
  \/ \E h \in MessageCalls, rejects \in BOOLEAN : PostMessageRead(h, rejects)

SpecMessages == Init /\ [][NextMessages]_vars

(* ------------------------------------------------------------------ *)
(* Properties                                                          *)
(* ------------------------------------------------------------------ *)

RoomsOf(c) == {m[1] : m \in {x \in BagToSet(rooms) : x[2] = c}}

PendingOf(c) == {h \in BagToSet(pending) : h.conn = c}

\* A token the handshake must refuse at time clock: missing, signed with
\* another key, or expired.
BadToken(t, clock) ==
  IF t = NoToken THEN TRUE ELSE t.key # Secret \/ t.payload.exp <= clock

\* A refused socket: no identity, no handlers, no rooms, nothing running or
\* emitted in its name, nothing delivered to it.
Untouched(c) ==
  /\ user[c] = NoUser
  /\ c \notin handlers
  /\ RoomsOf(c) = {}
  /\ PendingOf(c) = {}
  /\ last.event \notin {None, "connection"} => last.conn # c
  /\ \A i \in 1..Len(out) : out[i].from # c /\ out[i].to[c] = 0

\* C1: a connection whose handshake token is missing, wrongly signed or
\* expired is refused: it is never connected, neither the connection handler
\* nor any event handler runs for it, and it is in no room, its own user
\* room included.
C1_BadTokenRefused ==
  /\ [](\A c \in ConnIds : status[c] = "refused" => Untouched(c))
  /\ [][\A c \in ConnIds :
         /\ (status[c] = "idle" /\ status'[c] # "idle" /\ BadToken(token'[c], now))
              => status'[c] = "refused"
         /\ status[c] = "refused" => status'[c] = "refused"]_vars

C1_Witness ==
  /\ status["s1"] = "refused"
  /\ token["s1"] = SignedToken("u2", Secret, 0)
  /\ status["s2"] = "connected"
  /\ IsMember(rooms, UserRoom("u1"), "s2")


JoinRooms ==
  {ConversationRoom(id) : id \in ConvIds} \cup {DocumentRoom(id) : id \in DocIds}

\* The persistence layer's answer to "may this user join this room", read
\* from its rows: a participant of the conversation, or a member of the
\* project that owns the document.
Authorized(room, userId) ==
  \/ room[1] = "conversation" /\ <<room[2], userId>> \in participants
  \/ /\ room[1] = "document"
     /\ room[2] \in DOMAIN documents
     /\ <<documents[room[2]], userId>> \in projectMembers

\* Step record l is the authorization lookup of socket c's join of the room
\* coming back with a row.
JoinGranted(l, c, room) ==
  /\ l.event \in {"join-conversation", "join-document"}
  /\ "lookup" \in DOMAIN l
  /\ l.conn = c
  /\ l.lookup = "found"
  /\ \/ l.event = "join-conversation" /\ room = ConversationRoom(l.id)
     \/ l.event = "join-document" /\ l.await = "projectMember" /\ room = DocumentRoom(l.id)

\* C2: for a conversation or document room R and a connection C, C is a
\* member of R exactly when C, after its handshake, issued a join for R whose
\* authorization lookup succeeded at join time: membership is gained only by
\* such a join (the user being authorized in the persistence layer at that
\* moment), every such join gives it, and only the connection's close takes
\* it away.
C2_MemberIffAuthorizedJoin ==
  /\ [](\A c \in ConnIds, room \in JoinRooms :
          (JoinGranted(last, c, room) /\ status[c] = "connected") => IsMember(rooms, room, c))
  /\ [][\A c \in ConnIds, room \in JoinRooms :
         /\ (~IsMember(rooms, room, c) /\ IsMember(rooms', room, c))
              => /\ c \in handlers
                 /\ JoinGranted(last', c, room)
                 /\ Authorized(room, user[c].id)
         /\ (IsMember(rooms, room, c) /\ ~IsMember(rooms', room, c))
              => status[c] = "connected" /\ status'[c] = "disconnected"]_vars

C2_Witness ==
  /\ JoinGranted(last, "s1", ConversationRoom("k1"))
  /\ IsMember(rooms, ConversationRoom("k1"), "s1")
  /\ status["s2"] = "connected"
  /\ ~IsMember(rooms, ConversationRoom("k1"), "s2")

RoomScoped == {"user-joined", "document-change", "new-message", "user-typing"}

Rebroadcast == {"document-change", "new-message", "user-typing"}

\* C3: sender exclusion. A room-scoped broadcast (user-joined, document-change,
\* new-message, user-typing) triggered by connection C on room R is never
\* delivered to C, and every other open connection that is a member of R at
\* that moment receives it exactly once.
C3_SenderExcluded ==
  \A i \in 1..Len(out) :
    out[i].event \in RoomScoped =>
      /\ out[i].to[out[i].from] = 0
      /\ \A c \in ConnIds \ {out[i].from} :
           (IsMember(rooms, out[i].room, c) /\ status[c] = "connected") => out[i].to[c] = 1

C3_Witness ==
  /\ Len(out) = 1
  /\ out[1].event = "document-change"
  /\ out[1].from = "s1"
  /\ IsMember(rooms, DocumentRoom("d1"), "s1")
  /\ IsMember(rooms, DocumentRoom("d1"), "s2")
  /\ out[1].to["s2"] = 1

\* C4: a document-change, new-message or typing event from connection C
\* reaches the members of the target room only if C is itself a member of it.
C4_OnlyMembersRebroadcast ==
  \A i \in 1..Len(out) :
    (out[i].event \in Rebroadcast /\ \E c \in ConnIds : out[i].to[c] > 0)
      => IsMember(rooms, out[i].room, out[i].from)

\* The user-presence-change events with status "offline" for socket c's user
\* among what the last step emitted.
OfflineFor(c) ==
  {i \in 1..Len(out) :
     /\ out[i].event = "user-presence-change"
     /\ out[i].data = [userId |-> token[c].payload.id, status |-> "offline"]}

\* C5: disconnect releases all memberships. In every state after connection
\* C's disconnect was processed C is in no room, and that disconnect emitted
\* exactly one process-wide user-presence-change "offline" with C's user id.
C5_DisconnectReleases ==
  \A c \in ConnIds :
    status[c] = "disconnected" =>
      /\ RoomsOf(c) = {}
      /\ last = Inbound("disconnect", c, None) =>
           (Cardinality(OfflineFor(c)) = 1 /\ Len(out) = 1 /\ out[1].room = Everyone)

C5_Witness ==
  /\ last = Inbound("disconnect", "s1", None)
  /\ Len(out) = 1
  /\ out[1].to["s2"] = 1
  /\ IsMember(rooms, DocumentRoom("d1"), "s2")

\* C6: when a join whose authorization lookup is pending races with the
\* disconnect of the same connection, then once both are over the connection
\* is a member of no room, whichever came first.
C6_JoinDisconnectRaceEndsOutside ==
  \A c \in ConnIds :
    (status[c] = "disconnected" /\ PendingOf(c) = {}) => RoomsOf(c) = {}

\* The lookup of s1's join came back with a row after s1 had closed.
C6_Witness ==
  /\ status["s1"] = "disconnected"
  /\ PendingOf("s1") = {}
  /\ \/ JoinGranted(last, "s1", ConversationRoom("k1"))
     \/ JoinGranted(last, "s1", DocumentRoom("d1"))

\* Step record l is the authorization lookup of socket c's join of the room
\* coming back without a row.
JoinDenied(l, c, room) ==
  /\ l.event \in {"join-conversation", "join-document"}
  /\ "lookup" \in DOMAIN l
  /\ l.conn = c
  /\ l.lookup = "null"
  /\ \/ l.event = "join-conversation" /\ room = ConversationRoom(l.id)
     \/ l.event = "join-document" /\ l.await = "projectMember" /\ room = DocumentRoom(l.id)

\* C7: an unauthorized join is a silent no-op. When the lookup of a
\* join-conversation by a non-participant, or of a join-document by a user who
\* is not a member of the document's project, comes back, no room membership
\* changes, no event is emitted to anyone (the requester included) and the
\* connection stays as it was.
C7_UnauthorizedJoinSilent ==
  [][\A c \in ConnIds, room \in JoinRooms :
       (JoinDenied(last', c, room) /\ ~Authorized(room, user[c].id))
         => (rooms' = rooms /\ out' = <<>> /\ status' = status)]_vars

\* u2, removed from the project, had its join-document(d1) dropped while s1
\* sits in the room.
C7_Witness ==
  /\ \E c \in ConnIds :
       /\ JoinDenied(last, c, DocumentRoom("d1"))
       /\ status[c] = "connected"
       /\ ~IsMember(rooms, DocumentRoom("d1"), c)
       /\ \E other \in ConnIds \ {c} : IsMember(rooms, DocumentRoom("d1"), other)
  /\ out = <<>>

\* C8: on a successful join-document(D) by connection C, every other open
\* connection that is a member of document:D receives one user-joined carrying
\* C's authenticated user id and D, and C does not receive it.
C8_UserJoinedToOthers ==
  \A c \in ConnIds, d \in DocIds :
    JoinGranted(last, c, DocumentRoom(d)) =>
      /\ Len(out) = 1
      /\ out[1].event = "user-joined"
      /\ out[1].data = [userId |-> token[c].payload.id, documentId |-> d]
      /\ out[1].to[c] = 0
      /\ \A other \in ConnIds \ {c} :
           out[1].to[other] =
             IF IsMember(rooms, DocumentRoom(d), other) /\ status[other] = "connected"
               THEN 1 ELSE 0

C8_Witness ==
  /\ JoinGranted(last, "s2", DocumentRoom("d1"))
  /\ IsMember(rooms, DocumentRoom("d1"), "s1")
  /\ IsMember(rooms, DocumentRoom("d1"), "s2")
  /\ token["s1"].payload.id # token["s2"].payload.id
  /\ out[1].to["s1"] = 1

\* C9: join is idempotent. However often an authorized connection C issues
\* join-document(D), C occurs once in document:D, and a broadcast to
\* document:D from another member reaches C exactly once.
C9_JoinIdempotent ==
  \A c \in ConnIds, d \in DocIds :
    /\ Occurs(rooms, DocumentRoom(d), c) <= 1
    /\ \A i \in 1..Len(out) :
         ( /\ out[i].room = DocumentRoom(d)
           /\ out[i].from # c
           /\ IsMember(rooms, DocumentRoom(d), out[i].from)
           /\ IsMember(rooms, DocumentRoom(d), c)
           /\ status[c] = "connected" ) => out[i].to[c] = 1

\* s1's second join-document(d1) went through while it was in the room.
C9_Witness ==
  /\ JoinGranted(last, "s1", DocumentRoom("d1"))
  /\ last.held
  /\ status["s1"] = "connected"
  /\ Occurs(rooms, DocumentRoom("d1"), "s1") = 1
  /\ IsMember(rooms, DocumentRoom("d1"), "s2")

\* The identity fixed at the handshake of socket c.
HandshakeId(c) == token[c].payload.id

\* C10: every outbound event names its originator by the identity fixed at
\* handshake and carries exactly the specified fields: document-change the
\* client's documentId, content and position plus userId; new-message the
\* conversationId and message {id, content, senderId, createdAt}; user-typing
\* {userId, isTyping}; whatever userId or senderId the client wrote.
C10_PayloadAndOriginator ==
  /\ (last.event = "document-change" /\ last.data # Undefined) =>
       /\ Len(out) = 1
       /\ out[1].event = "document-change"
       /\ out[1].room = DocumentRoom(last.data.documentId)
       /\ out[1].data = [documentId |-> last.data.documentId, content |-> last.data.content,
                         position |-> last.data.position, userId |-> HandshakeId(last.conn)]
  /\ (last.event = "new-message" /\ last.data # Undefined) =>
       /\ Len(out) = 1
       /\ out[1].event = "new-message"
       /\ out[1].room = ConversationRoom(last.data.conversationId)
       /\ out[1].data =
            [conversationId |-> last.data.conversationId,
             message |-> [id |-> last.data.message.id, content |-> last.data.message.content,
                          senderId |-> HandshakeId(last.conn),
                          createdAt |-> last.data.message.createdAt]]
  /\ (last.event = "typing" /\ last.data # Undefined) =>
       /\ Len(out) = 1
       /\ out[1].event = "user-typing"
       /\ out[1].room = ConversationRoom(last.data.conversationId)
       /\ out[1].data = [userId |-> HandshakeId(last.conn), isTyping |-> last.data.isTyping]

\* u1 sent a message naming u2 as its sender, and the other member got it.
C10_Witness ==
  /\ last.event = "new-message"
  /\ last.data # Undefined
  /\ last.data.message.senderId # HandshakeId(last.conn)
  /\ Len(out) = 1
  /\ \E c \in ConnIds \ {last.conn} : out[1].to[c] = 1

\* C11: set-presence(status) from connection C has no precondition: any open
\* connection can have it handled, and it results in one user-presence-change
\* {userId: C's user id, status} delivered to every open connection, whatever
\* rooms they are in, with the status string as the client sent it.
C11_PresenceToEveryone ==
  /\ \A c \in ConnIds, presence \in Statuses :
       status[c] = "connected" => ENABLED SetPresence(c, presence)
  /\ last.event = "set-presence" =>
       /\ Len(out) = 1
       /\ out[1].event = "user-presence-change"
       /\ out[1].data = [userId |-> HandshakeId(last.conn), status |-> last.data]
       /\ \A r \in ConnIds : out[1].to[r] = IF status[r] = "connected" THEN 1 ELSE 0

\* s1 sent a status outside any enum while it shared no room with s2.
C11_Witness ==
  /\ last = Inbound("set-presence", "s1", "gone fishing")
  /\ out[1].data.status = "gone fishing"
  /\ out[1].to["s2"] = 1
  /\ out[1].to["s1"] = 1
  /\ RoomsOf("s1") \cap RoomsOf("s2") = {}
  /\ RoomsOf("s2") = {UserRoom(HandshakeId("s2"))}

\* The presence events socket c's handlers emit.
TypingOf(c) == [from |-> c, data |-> [userId |-> HandshakeId(c), status |-> "typing"]]

OfflineOf(c) == [from |-> c, data |-> [userId |-> HandshakeId(c), status |-> "offline"]]

IsPrefix(s, t) == Len(s) <= Len(t) /\ \A i \in 1..Len(s) : s[i] = t[i]

\* The entries a step added to an inbox that it only appended to.
Added(old, new) == SubSeq(new, Len(old) + 1, Len(new))

UserRooms == {UserRoom(u) : u \in Users}

\* C13: every admitted connection is a member of the room user:<its own
\* authenticated user id> from the moment it is connected until it closes,
\* put there by the connection handler with no lookup pending or settled, and
\* a room user:<u> holds no connection authenticated as another user.
C13_OwnUserRoom ==
  /\ [](\A c \in ConnIds :
          /\ status[c] = "connected" => IsMember(rooms, UserRoom(HandshakeId(c)), c)
          /\ \A room \in UserRooms :
               IsMember(rooms, room, c) => (user[c].id = room[2] /\ Occurs(rooms, room, c) = 1))
  /\ [][\A c \in ConnIds : \A room \in UserRooms :
         (~IsMember(rooms, room, c) /\ IsMember(rooms', room, c))
           => /\ last' = [event |-> "connection", conn |-> c]
              /\ status[c] = "idle"
              /\ pending' = pending]_vars

\* Two users, each in its own user room and not in the other's.
C13_Witness ==
  /\ status["s1"] = "connected"
  /\ status["s2"] = "connected"
  /\ HandshakeId("s1") # HandshakeId("s2")
  /\ IsMember(rooms, UserRoom(HandshakeId("s1")), "s1")
  /\ ~IsMember(rooms, UserRoom(HandshakeId("s1")), "s2")
  /\ IsMember(rooms, UserRoom(HandshakeId("s2")), "s2")

\* The token socket c was admitted with has expired.
Expired(c) == token[c].payload.exp <= now

\* C14: the credential check runs once per connection, at the handshake. No
\* inbound event verifies the token again: a connection admitted with a token
\* that was valid then stays open when the token expires, keeps the identity
\* decoded at the handshake, and has its events handled and attributed to
\* that identity.
C14_CredentialCheckedOnce ==
  /\ [](\A c \in ConnIds :
          status[c] = "connected" =>
            /\ user[c] = token[c].payload
            /\ \A presence \in Statuses : ENABLED SetPresence(c, presence)
            /\ \A data \in TypingData : ENABLED Typing(c, data)
            /\ \A data \in NewMessageData : ENABLED NewMessage(c, data)
            /\ \A data \in DocumentChangeData : ENABLED DocumentChange(c, data)
            /\ BagCardinality(pending) < MaxPending =>
                 /\ \A id \in ConvIds : ENABLED JoinConversation(c, id)
                 /\ \A id \in DocIds : ENABLED JoinDocument(c, id)
            /\ (last = Inbound("set-presence", c, "typing") /\ Expired(c)) =>
                 out[1].data = [userId |-> HandshakeId(c), status |-> "typing"])
  /\ [][\A c \in ConnIds :
         status[c] = "connected" =>
           /\ token'[c] = token[c]
           /\ user'[c] = user[c]
           /\ now' # now => (status'[c] = "connected" /\ rooms' = rooms)]_vars

\* s1, whose token has expired, sent a message and the other member got it.
C14_Witness ==
  /\ status["s1"] = "connected"
  /\ Expired("s1")
  /\ last.event = "new-message"
  /\ last.conn = "s1"
  /\ Len(out) = 1
  /\ out[1].data.message.senderId = HandshakeId("s1")
  /\ out[1].to["s2"] = 1

\* C15: room membership is checked only at join time. When a user's
\* participant or project member row is removed after its connection joined
\* the room, the removal changes no room, the connection stays a member until
\* it closes, and it keeps receiving the room's broadcasts.
C15_MembershipNotRevalidated ==
  /\ [](\A c \in ConnIds, room \in JoinRooms :
          ( /\ status[c] = "connected"
            /\ IsMember(rooms, room, c)
            /\ ~Authorized(room, user[c].id) ) =>
              \A i \in 1..Len(out) :
                (out[i].room = room /\ out[i].from # c) => out[i].to[c] = 1)
  /\ [][/\ (participants' # participants \/ projectMembers' # projectMembers)
              => (rooms' = rooms /\ status' = status)
         /\ \A c \in ConnIds, room \in JoinRooms :
              (IsMember(rooms, room, c) /\ ~IsMember(rooms', room, c))
                => status[c] = "connected" /\ status'[c] = "disconnected"]_vars

\* A connection of u2, no longer a participant of k1, got a message sent to
\* conversation:k1 by the other connection.
C15_Witness ==
  \E c \in ConnIds :
    /\ status[c] = "connected"
    /\ user[c].id = "u2"
    /\ <<"k1", "u2">> \notin participants
    /\ IsMember(rooms, ConversationRoom("k1"), c)
    /\ Len(out) = 1
    /\ out[1].event = "new-message"
    /\ out[1].from # c
    /\ out[1].to[c] = 1

\* The events whose handlers finish in the step that starts them.
Immediate == {"document-change", "new-message", "typing", "set-presence"}

\* How many handlers of socket c are suspended.
Suspensions(c) == BagCardinality([h \in PendingOf(c) |-> pending[h]])

\* C16: for a single connection each handler runs to completion, its awaited
\* lookups included, before the next event of that connection is handled:
\* when the handler of an event of connection C starts, no earlier handler of
\* C is still suspended.
C16_HandlersRunToCompletion ==
  \A c \in ConnIds :
    ("data" \in DOMAIN last /\ last.conn = c /\ process = "up") =>
      /\ last.event \in Immediate => Suspensions(c) = 0
      /\ last.event \in {"join-conversation", "join-document"} => Suspensions(c) = 1

\* Step record l is a handler failing: an awaited lookup rejected, or an
\* event that came without its payload.
HandlerFailed(l) ==
  \/ "lookup" \in DOMAIN l /\ l.lookup = "rejected"
  \/ /\ l.event \in {"document-change", "new-message", "typing"}
     /\ l.data = Undefined

\* C17: a failure inside one event handler (a rejected lookup, a missing
\* payload) closes no connection, changes no room and leaves the process
\* handling events.
C17_HandlerFailureContained ==
  [][HandlerFailed(last') => (status' = status /\ rooms' = rooms /\ process' = "up")]_vars

\* Step record l is a join giving up: its lookup rejected, or the document
\* it names does not exist.
JoinAborted(l) ==
  /\ "lookup" \in DOMAIN l
  /\ \/ l.lookup = "rejected"
     \/ l.event = "join-document" /\ l.await = "document" /\ l.lookup = "null"

\* C18: when the lookup of a join-conversation or join-document rejects, or
\* the document does not exist, the handler ends there: no room changes,
\* nothing is emitted, the handler is not suspended again (no retry), and
\* every connection stays as it was, able to issue further events.
C18_LookupFailureAborts ==
  [][JoinAborted(last') =>
       /\ rooms' = rooms
       /\ out' = <<>>
       /\ status' = status
       /\ handlers' = handlers
       /\ process' = process
       /\ BagCardinality(pending') = BagCardinality(pending) - 1]_vars

\* s1's join-document came back rejected while s2 sits in the room; s1 is
\* open, outside the room and has nothing suspended.
C18_Witness ==
  /\ last.event = "join-document"
  /\ "lookup" \in DOMAIN last
  /\ last.conn = "s1"
  /\ last.id = "d1"
  /\ last.lookup = "rejected"
  /\ status["s1"] = "connected"
  /\ ~IsMember(rooms, DocumentRoom("d1"), "s1")
  /\ IsMember(rooms, DocumentRoom("d1"), "s2")
  /\ PendingOf("s1") = {}
  /\ out = <<>>

\* C19: once a connection is authenticated no server-side handler closes
\* it: it goes from connected to disconnected only by the client's disconnect
\* or the transport's liveness timeout.
C19_OnlyClientOrTimeoutCloses ==
  [][\A c \in ConnIds :
       (status[c] = "connected" /\ status'[c] # "connected")
         => last' = Inbound("disconnect", c, None)]_vars

\* C20: every user-presence-change broadcast comes from exactly one
\* set-presence event or one disconnect, of the user it names; connecting,
\* joining a room, and document-change, new-message and typing events emit
\* no presence broadcast.
C20_PresenceOnlyBySetPresenceOrDisconnect ==
  /\ last.event \notin {"set-presence", "disconnect"} =>
       \A i \in 1..Len(out) : out[i].event # "user-presence-change"
  /\ last.event \in {"set-presence", "disconnect"} =>
       /\ Len(out) = 1
       /\ out[1].event = "user-presence-change"
       /\ out[1].from = last.conn
       /\ out[1].data.userId = HandshakeId(last.conn)
       /\ out[1].data.status = IF last.event = "disconnect" THEN "offline" ELSE last.data

\* s2 has just connected while s1 is open, and nothing was emitted.
C20_Witness ==
  /\ last = [event |-> "connection", conn |-> "s2"]
  /\ status["s2"] = "connected"
  /\ status["s1"] = "connected"
  /\ out = <<>>

\* C21: the handshake and authenticateToken accept exactly the same tokens:
\* for every token string, the socket authenticator admits it if and only if
\* authenticateToken calls next() for a request carrying it as
\* "Bearer <token>", and both attach the same decoded identity. (Stated for
\* the token strings with no space at their ends, which reach the server
\* whole in a header.)
C21_SameTokensAccepted ==
  (http # NoRequest /\ http.status # 429) =>
    \A str \in {s \in TokenStrings : Trim(s) = s} :
      http.header = BearerHeader(str) =>
        LET decoded == Authenticate(StringToken(str), http.at) IN
        /\ http.status = 200 <=> decoded # AuthenticationError
        /\ http.status = 200 =>
             /\ http.user.id = decoded.id
             /\ http.user.email = decoded.email

\* The run right after the first space of a header, if there is one.
Presented(header) ==
  IF header = NoHeader THEN {}
  ELSE {header.value[i] : i \in {k \in 2..Len(header.value) :
          /\ header.value[k] # Sp
          /\ header.value[k - 1] = Sp
          /\ \A j \in 1..(k - 2) : header.value[j] # Sp}}

\* A signed token the server accepts at time clock.
GoodToken(w, clock) ==
  /\ w \in Jwts
  /\ w.key = Secret
  /\ w.payload.exp > clock

MembersOf(rm, room) == {c \in ConnIds : IsMember(rm, room, c)}

\* The step is a join-document handler of c being granted document id.
Granted(c, id) ==
  /\ last'.event = "join-document"
  /\ "lookup" \in DOMAIN last'
  /\ last'.conn = c
  /\ last'.id = id
  /\ last'.await = "projectMember"
  /\ last'.lookup = "found"

\* C22: when connections of project members issue join-document(D)
\* concurrently, under every interleaving of their lookups each granted join
\* makes its connection a member of document:D, and no join removes or
\* prevents another's membership: a granted join adds exactly the joining
\* connection, and an open connection never loses a membership.
C22_ConcurrentJoinsBothSucceed ==
  [][/\ \A c \in ConnIds, id \in DocIds :
          Granted(c, id) =>
            MembersOf(rooms', DocumentRoom(id)) =
              MembersOf(rooms, DocumentRoom(id))
                \cup (IF status[c] = "connected" THEN {c} ELSE {})
     /\ \A c \in ConnIds, room \in {DocumentRoom(id) : id \in DocIds} :
          (IsMember(rooms, room, c) /\ status'[c] = "connected")
            => IsMember(rooms', room, c)]_vars

\* s1 (u1) has just been granted document d1 for the first time, s2 (u2) was
\* in the room before it, and both are members.
C22_Witness ==
  /\ last.event = "join-document"
  /\ last.conn = "s1"
  /\ "lookup" \in DOMAIN last
  /\ last.await = "projectMember"
  /\ last.lookup = "found"
  /\ ~last.held
  /\ user["s1"].id = "u1"
  /\ user["s2"].id = "u2"
  /\ MembersOf(rooms, DocumentRoom("d1")) = {"s1", "s2"}

\* The room keys of a room map.
RoomKeys(rm) == {m[1] : m \in BagToSet(rm)}

\* C23: a room key is in the room map if and only if a connected connection
\* is a member of it: no room contains a disconnected connection, a room
\* appears with the join of a connection (to its user room at connection, or
\* a granted join) and disappears only when its members have disconnected.
C23_RoomsHaveConnectedMembers ==
  /\ [](\A m \in BagToSet(rooms) : status[m[2]] = "connected")
  /\ [][/\ \A room \in RoomKeys(rooms') \ RoomKeys(rooms) :
             /\ MembersOf(rooms', room) = {last'.conn}
             /\ \/ last'.event = "connection" /\ room[1] = "user"
                \/ /\ last'.event \in {"join-conversation", "join-document"}
                   /\ "lookup" \in DOMAIN last'
                   /\ last'.lookup = "found"
        /\ \A room \in RoomKeys(rooms) \ RoomKeys(rooms') :
             /\ MembersOf(rooms, room) # {}
             /\ \A c \in MembersOf(rooms, room) : status'[c] = "disconnected"]_vars

\* s1 has disconnected while its join-document was awaiting a lookup: its
\* rooms are gone, and s2's user room is all that is left.
C23_Witness ==
  /\ last = Inbound("disconnect", "s1", None)
  /\ status["s1"] = "disconnected"
  /\ status["s2"] = "connected"
  /\ user["s2"].id = "u2"
  /\ RoomKeys(rooms) = {UserRoom("u2")}
  /\ \E h \in BagToSet(pending) : h.conn = "s1" /\ h.event = "join-document"

\* C24: after the offline broadcast for a connection's disconnect, no
\* further outbound event caused by that connection reaches anyone, even if
\* one of its join handlers was still awaiting its lookup when it
\* disconnected.
C24_SilentAfterDisconnect ==
  [][\A c \in ConnIds :
       status[c] = "disconnected" =>
         \A i \in 1..Len(out') :
           out'[i].from = c => \A r \in ConnIds : out'[i].to[r] = 0]_vars

\* C26 as stated: the disconnect handler emits "offline" for a user only
\* when the user has no remaining connected connection.
C26_Original ==
  (last.event = "disconnect" /\ out # <<>>) =>
    ~\E r \in ConnIds : status[r] = "connected" /\ user[r].id = user[last.conn].id

\* C26: every disconnect of a connection of user U emits one "offline"
\* user-presence-change for U to every open connection, the other
\* connections of U included, whether or not U still has one.
C26_OfflinePerConnection ==
  last.event = "disconnect" =>
    /\ Len(out) = 1
    /\ out[1].event = "user-presence-change"
    /\ out[1].data = [userId |-> user[last.conn].id, status |-> "offline"]
    /\ \A r \in ConnIds : out[1].to[r] = (IF status[r] = "connected" THEN 1 ELSE 0)

\* u1 holds s1 and s2; s1 has disconnected and s2, still open, was sent
\* the "offline" of u1.
C26_Witness ==
  /\ last = Inbound("disconnect", "s1", None)
  /\ user["s1"].id = "u1"
  /\ user["s2"].id = "u1"
  /\ status["s2"] = "connected"
  /\ out[1].to["s2"] = 1

\* How many user-joined events for document id, emitted by c's handlers, the
\* client of r has received.
JoinedSeen(box, r, c, id) ==
  Cardinality({i \in 1..Len(box.got[r]) :
                 /\ box.got[r][i].from = c
                 /\ "documentId" \in DOMAIN box.got[r][i].data
                 /\ box.got[r][i].data.documentId = id})

\* Open connections that are both members of document:id.
Together(a, b, id) ==
  /\ a # b
  /\ status[a] = "connected"
  /\ status[b] = "connected"
  /\ IsMember(rooms, DocumentRoom(id), a)
  /\ IsMember(rooms, DocumentRoom(id), b)

\* C25 as stated: of two open connections that both joined document:D,
\* exactly one has received the other's user-joined.
C25_Original ==
  \A a \in ConnIds : \A b \in ConnIds \ {a} : \A id \in DocIds :
    Together(a, b, id) =>
      (JoinedSeen(inbox, a, b, id) > 0) # (JoinedSeen(inbox, b, a, id) > 0)

\* C25: joining document:D and emitting user-joined are one step. Every
\* granted join of a connection sends one user-joined to each other open
\* member of the room at that moment, and to nobody else; a connection
\* outside the room has received none for D. So of two open members the one
\* that joined first has received the other's user-joined, and the later one
\* receives the earlier one's only when the earlier one joins D again.
C25_JoinAndNotifyTogether ==
  /\ [](\A a \in ConnIds : \A b \in ConnIds \ {a} : \A id \in DocIds :
          /\ Together(a, b, id) =>
               JoinedSeen(inbox, a, b, id) + JoinedSeen(inbox, b, a, id) >= 1
          /\ (status[a] = "connected" /\ ~IsMember(rooms, DocumentRoom(id), a))
               => JoinedSeen(inbox, a, b, id) = 0)
  /\ [][\A c \in ConnIds : \A r \in ConnIds : \A id \in DocIds :
          JoinedSeen(inbox', r, c, id) =
            JoinedSeen(inbox, r, c, id)
              + (IF /\ Granted(c, id)
                    /\ r # c
                    /\ status[r] = "connected"
                    /\ IsMember(rooms, DocumentRoom(id), r)
                   THEN 1 ELSE 0)]_vars

\* s2 has just joined document d1 after s1: s1 has received s2's user-joined
\* and s2 has received none.
C25_Witness ==
  /\ last.event = "join-document"
  /\ "lookup" \in DOMAIN last
  /\ last.conn = "s2"
  /\ last.lookup = "found"
  /\ ~last.held
  /\ Together("s1", "s2", "d1")
  /\ JoinedSeen(inbox, "s1", "s2", "d1") = 1
  /\ JoinedSeen(inbox, "s2", "s1", "d1") = 0

\* The users with a participant row in conversation k.
ParticipantsOf(k) == {u \in Users : <<k, u>> \in participants}

\* C28: POST /conversations with type DIRECT and two participants returns
\* the pair's DIRECT conversation when there is one, so that after any
\* sequence or interleaving of such requests at most one DIRECT conversation
\* has both users as its participants.
C28_OneDirectConversationPerPair ==
  \A a \in Users : \A b \in Users \ {a} :
    Cardinality({k \in db.conversations :
                   k.type = "DIRECT" /\ ParticipantsOf(k.id) = {a, b}}) <= 1

\* C29: PUT /documents/:id by a project member creates one DocumentEdit
\* holding the document's content immediately before that update and then
\* overwrites the document, under any interleaving of updates: when an
\* update is written, the edit its request recorded holds the content the
\* update replaces, so that the edits followed by the current content are
\* the document's successive versions.
C29_EditHoldsReplacedContent ==
  [][\A h \in BagToSet(calls) :
       (/\ h.route = "PUT /documents/:id"
        /\ h.stage = "update"
        /\ calls' = Return(h)
        /\ http' = Respond(h, 200, h.content))
         => OrEmpty(h.read) = db.content[h.id]]_vars

MessageRoutes == {GetMessagesRoute, PostMessageRoute}

\* The handler h ends in this step.
Ends(h) == InFlight(h) /\ calls' = Return(h)

\* C30: only a recorded participant of a conversation reads or sends its
\* messages over REST. A non-participant's GET or POST never gets past the
\* participant check: it is answered 403 (500 if the lookup itself fails)
\* and leaves all state unchanged. Messages, lastRead and updatedAt change
\* only in a participant's request, and a successful POST has created
\* exactly one Message, whose senderId is the authenticated user.
C30_ParticipantsOnly ==
  /\ [](\A h \in BagToSet(calls) :
          (h.route \in MessageRoutes /\ <<h.id, h.user>> \notin participants)
            => h.stage = "participant")
  /\ [][/\ \A h \in BagToSet(calls) :
             (/\ h.route \in MessageRoutes
              /\ <<h.id, h.user>> \notin participants
              /\ Ends(h))
               => /\ http'.status \in {403, 500}
                  /\ http'.user = h.user
                  /\ db' = db
                  /\ participants' = participants
        /\ db'.messages # db.messages =>
             \E h \in BagToSet(calls) :
               /\ h.route = PostMessageRoute
               /\ <<h.id, h.user>> \in participants
               /\ Len(db'.messages) = Len(db.messages) + 1
               /\ SubSeq(db'.messages, 1, Len(db.messages)) = db.messages
               /\ db'.messages[Len(db'.messages)].senderId = h.user
               /\ db'.messages[Len(db'.messages)].conversationId = h.id
               /\ h.message = NoMessage
               /\ calls' = Return(h) (+) SetToBag({[h EXCEPT
                              !.stage = "updatedAt",
                              !.message = db'.messages[Len(db'.messages)]]})
        /\ (db'.lastRead # db.lastRead \/ db'.updatedAt # db.updatedAt) =>
             \E h \in BagToSet(calls) :
               /\ h.route \in MessageRoutes
               /\ <<h.id, h.user>> \in participants
               /\ \A row \in DOMAIN db.lastRead \ {<<h.id, h.user>>} :
                    db'.lastRead[row] = db.lastRead[row]
               /\ \A k \in DOMAIN db.updatedAt \ {h.id} :
                    db'.updatedAt[k] = db.updatedAt[k]
        /\ (http'.route = PostMessageRoute /\ http'.status = 201) =>
             \E h \in BagToSet(calls) :
               /\ Ends(h)
               /\ h.message # NoMessage
               /\ http'.body = h.message
               /\ h.message.senderId = http'.user
               /\ \E i \in 1..Len(db.messages) : db.messages[i] = h.message]_vars

\* u1 has sent a message to k1, and u3, no participant, has just been
\* refused; the message is the only one.
C30_Witness ==
  /\ http.route = PostMessageRoute
  /\ http.status = 403
  /\ http.user = "u3"
  /\ Len(db.messages) = 1
  /\ db.messages[1].senderId = "u1"
  /\ db.lastRead[<<"k1", "u1">>] = now
  /\ db.updatedAt["k1"] = now
====
